---- MODULE Spec2Model ----
(***************************************************************************)
(* A model of beat-polymarket:                                             *)
(*   payout_calc.py  evaluate_market: calibration, side selection, payout  *)
(*   pull_30day.py   is_binary_yes_no / summarize_binary_market: the       *)
(*                   canonical (Yes, No) pair and the quote cascade        *)
(*                                                                         *)
(* Numbers.  The program computes with Python floats.  The model computes  *)
(* with exact rationals <<n, d>> (d > 0, lowest terms); round(x, k) is     *)
(* round-half-to-even on the exact value.  Inputs are kept away from the   *)
(* places where binary rounding could change a comparison.                 *)
(* Python's None is None (the empty tuple) where a number is expected and  *)
(* NoneS where a string is expected.                                       *)
(***************************************************************************)
EXTENDS Integers, Sequences, FiniteSets, TLC

VARIABLES
    \* payout_calc.py
    cfg,        \* Config: majority_accuracy, min_ev, fee_rate
    call,       \* the arguments of the pending evaluate_market call
    loc,        \* evaluate_market's locals at its return statement
    res,        \* the dict evaluate_market returned
    epc,        \* "call" before evaluate_market runs, "returned" after
    \* pull_30day.py
    m,          \* the market record
    price_map,  \* the bulk quotes, token id -> quote
    tokq,       \* summarize_binary_market's locals: outs, tids, quotes
    fetched,    \* the token ids fetch_prices_single was called with, in order
    summary,    \* the dict summarize_binary_market returned
    spc,        \* the pipeline's position
    \* payout_calc.py, main
    results,    \* main's list of the dicts evaluate_market returned
    report,     \* the totals main prints in its summary
    mpc         \* main's position: "loop", "bye" or "done"

evars == <<cfg, call, loc, res, epc>>
svars == <<m, price_map, tokq, fetched, summary, spc>>
mvars == <<results, report, mpc>>
vars ==
    <<cfg, call, loc, res, epc, m, price_map, tokq, fetched, summary, spc,
      results, report, mpc>>

None == <<>>
NoneS == "None"

----------------------------------------------------------------------------
(* Exact rational arithmetic *)

AbsInt(x) == IF x < 0 THEN -x ELSE x

RECURSIVE GCD(_, _)
GCD(a, b) == IF b = 0 THEN a ELSE GCD(b, a % b)

\* n/d in lowest terms with a positive denominator (d # 0)
Rat(n, d) ==
    LET g == GCD(AbsInt(n), AbsInt(d))
        s == IF d < 0 THEN -1 ELSE 1
    IN  <<(s * n) \div g, (s * d) \div g>>

Int2R(i) == <<i, 1>>
Zero == Int2R(0)
One == Int2R(1)
Half == Rat(1, 2)

Add(x, y) ==
    LET g == GCD(x[2], y[2])
    IN  Rat(x[1] * (y[2] \div g) + y[1] * (x[2] \div g), (x[2] \div g) * y[2])
Neg(x) == <<-x[1], x[2]>>
Sub(x, y) == Add(x, Neg(y))
Mul(x, y) ==
    LET g1 == GCD(AbsInt(x[1]), y[2])
        g2 == GCD(AbsInt(y[1]), x[2])
    IN  Rat((x[1] \div g1) * (y[1] \div g2), (x[2] \div g2) * (y[2] \div g1))
\* x / y for y # 0
Div(x, y) ==
    Mul(x, IF y[1] < 0 THEN <<-y[2], -y[1]>> ELSE <<y[2], y[1]>>)
\* the sign of x - y, computed without a common denominator
Lt(x, y) == Sub(x, y)[1] < 0
Le(x, y) == Sub(x, y)[1] <= 0
Gt(x, y) == Lt(y, x)
Ge(x, y) == Le(y, x)
AbsR(x) == <<AbsInt(x[1]), x[2]>>
MaxR(x, y) == IF Gt(x, y) THEN x ELSE y

RECURSIVE Pow10(_)
Pow10(k) == IF k = 0 THEN 1 ELSE 10 * Pow10(k - 1)

\* floor(x * 10^k) by long division: <<floor, remainder>> over x's denominator
RECURSIVE Digits(_, _, _, _)
Digits(acc, r, d, k) ==
    IF k = 0 THEN <<acc, r>>
    ELSE Digits(acc * 10 + ((r * 10) \div d), (r * 10) % d, d, k - 1)

\* Python's round(x, k): the nearest multiple of 10^-k, ties to the even one
Round(x, k) ==
    LET fr == Digits(x[1] \div x[2], x[1] % x[2], x[2], k)
        lo == fr[1]
        up == IF 2 * fr[2] > x[2] THEN 1
              ELSE IF 2 * fr[2] < x[2] THEN 0
              ELSE IF lo % 2 = 0 THEN 0 ELSE 1
    IN  Rat(lo + up, Pow10(k))

----------------------------------------------------------------------------
(* payout_calc.py *)

\* _as_prob: a value above 1 is read as a percentage
_as_prob(x) == IF Gt(x, One) THEN Div(x, Int2R(100)) ELSE x

\* the tolerance of the consistency check, 1e-6
Tolerance == Rat(1, 1000000)

\* lines 33-36: the normalized pair
NormPYes(yes_pct) == _as_prob(yes_pct)
NormPNo(yes_pct, no_pct) ==
    LET p_yes == _as_prob(yes_pct)
        p_no == IF no_pct = None THEN Sub(One, p_yes) ELSE _as_prob(no_pct)
    IN  IF Gt(AbsR(Sub(Add(p_yes, p_no), One)), Tolerance)
        THEN Sub(One, p_yes) ELSE p_no

\* a tie counted as a YES majority
Calibrate_TieIsMajority(p_yes, p_no, c) ==
    IF Ge(p_yes, p_no) THEN c.majority_accuracy
    ELSE Sub(One, c.majority_accuracy)

\* lines 39-44: the calibrated probability of YES
Calibrate(p_yes, p_no, c) ==
    IF Gt(p_yes, p_no) THEN c.majority_accuracy
    ELSE IF Lt(p_yes, p_no) THEN Sub(One, c.majority_accuracy)
    ELSE Half

\* the side chosen on the EVs as displayed, rounded to 4 places
ChooseSide_Rounded(ev_per_yes, ev_per_no, c) ==
    IF Lt(Round(ev_per_yes, 4), c.min_ev) /\ Lt(Round(ev_per_no, 4), c.min_ev)
    THEN "HOLD"
    ELSE IF Ge(Round(ev_per_yes, 4), Round(ev_per_no, 4)) THEN "YES"
    ELSE "NO"

\* lines 51, 58, 71: the side chosen by EV
ChooseSide(ev_per_yes, ev_per_no, c) ==
    IF Lt(ev_per_yes, c.min_ev) /\ Lt(ev_per_no, c.min_ev) THEN "HOLD"
    ELSE IF Ge(ev_per_yes, ev_per_no) THEN "YES"
    ELSE "NO"

\* lines 65-66 / 76-77: shares bought with the stake at price c
Shares(stake, c) == IF Gt(c, Zero) THEN Div(stake, c) ELSE Zero

\* lines 67-68 / 78-79: what a win returns, the fee taken on the profit
WinPayout(stake, c, fee_rate) ==
    LET gross_win_payout == Mul(Shares(stake, c), One)
        fee == Mul(fee_rate, Sub(gross_win_payout, stake))
    IN  Sub(gross_win_payout, fee)

\* the expected return, the stake not deducted
EvDollars_Gross(q_win, win_payout, lose_payout, stake) ==
    Add(Mul(q_win, win_payout), Mul(Sub(One, q_win), lose_payout))

\* lines 70 / 81
EvDollars(q_win, win_payout, lose_payout, stake) ==
    Sub(Add(Mul(q_win, win_payout), Mul(Sub(One, q_win), lose_payout)), stake)

\* lines 32-81: evaluate_market's locals when it reaches its return
EvalLocals(yes_pct, no_pct, stake, c) ==
    LET p_yes == NormPYes(yes_pct)
        p_no == NormPNo(yes_pct, no_pct)
        q_yes == Calibrate(p_yes, p_no, c)
        ev_per_yes == Sub(q_yes, p_yes)
        ev_per_no == Sub(Sub(One, q_yes), p_no)
        side == ChooseSide(ev_per_yes, ev_per_no, c)
        price == IF side = "YES" THEN p_yes ELSE p_no
        q_win == IF side = "YES" THEN q_yes ELSE Sub(One, q_yes)
        win == WinPayout(stake, price, c.fee_rate)
    IN  [ p_yes |-> p_yes, p_no |-> p_no, q_yes |-> q_yes,
          ev_per_yes |-> ev_per_yes, ev_per_no |-> ev_per_no,
          side |-> side, stake |-> stake,
          chosen_price |-> IF side = "HOLD" THEN None ELSE price,
          chosen_q_win |-> IF side = "HOLD" THEN None ELSE q_win,
          win_payout |-> IF side = "HOLD" THEN Zero ELSE win,
          lose_payout |-> Zero,
          ev_dollars |-> IF side = "HOLD" THEN Zero
                         ELSE EvDollars(q_win, win, Zero, stake) ]

\* lines 83-96: the returned dict
EvalResult(l) ==
    [ p_yes_market |-> Round(l.p_yes, 4),
      p_no_market |-> Round(l.p_no, 4),
      q_yes_calibrated |-> Round(l.q_yes, 4),
      side |-> l.side,
      stake |-> Round(l.stake, 2),
      chosen_price |-> IF l.chosen_price = None THEN None
                       ELSE Round(l.chosen_price, 4),
      win_prob_of_chosen |-> IF l.chosen_q_win = None THEN None
                             ELSE Round(l.chosen_q_win, 4),
      ev_per_dollar |-> IF l.side # "HOLD"
                        THEN Round(MaxR(l.ev_per_yes, l.ev_per_no), 4)
                        ELSE Zero,
      ev_dollars |-> Round(l.ev_dollars, 2),
      win_payout_if_correct |-> Round(l.win_payout, 2),
      lose_payout_if_wrong |-> Round(l.lose_payout, 2) ]

\* Inputs of evaluate_market
MaxGrid == 5
Accuracies == {Rat(9, 10), Rat(1, 2), One}
MinEvs == {Zero, Rat(3, 10)}
FeeRates == {Zero, Rat(1, 50)}
YesPcts ==
    {Rat(k, 4) : k \in -1..MaxGrid}
        \cup {Int2R(38), Int2R(50), Int2R(62), Int2R(100), Int2R(150),
              Rat(1000001, 2000000)}
NoPcts ==
    {None, Int2R(38), Int2R(50), Int2R(60), Rat(1, 2), Rat(3, 4),
     Rat(1000001, 2000000), Rat(250001, 500000)}
Stakes == {Int2R(-10), Zero, Int2R(10), Int2R(100)}

Configs ==
    [majority_accuracy : Accuracies, min_ev : MinEvs, fee_rate : FeeRates]
Calls == [yes_pct : YesPcts, no_pct : NoPcts, stake : Stakes]

NoRecord == [side |-> NoneS]

MainIdle == results = <<>> /\ report = NoRecord /\ mpc = "idle"

SumIdle ==
    /\ m = NoRecord /\ price_map = <<>> /\ tokq = NoRecord
    /\ fetched = <<>> /\ summary = NoRecord /\ spc = "idle"

EvalInit ==
    /\ cfg \in Configs
    /\ call \in Calls
    /\ loc = NoRecord
    /\ res = NoRecord
    /\ epc = "call"
    /\ SumIdle
    /\ MainIdle

\* main line 121: res = evaluate_market(q, y, n, stake, cfg)
EvaluateMarket ==
    /\ epc = "call"
    /\ loc' = EvalLocals(call.yes_pct, call.no_pct, call.stake, cfg)
    /\ res' = EvalResult(loc')
    /\ epc' = "returned"
    /\ UNCHANGED <<cfg, call>>
    /\ UNCHANGED svars
    /\ UNCHANGED mvars

EvalNext == EvaluateMarket

Spec == EvalInit /\ [][EvalNext]_vars

----------------------------------------------------------------------------
(* pull_30day.py *)

\* A label is a sequence of one-character strings.  A list-valued field that
\* is absent is None, the empty sequence: the code treats an absent and an
\* empty outcomes, clobTokenIds or outcomePrices alike.
UpperChars == <<"Y", "E", "S", "N", "O", "T", "R", "U", "F", "A", "L", "M", "B">>
LowerChars == <<"y", "e", "s", "n", "o", "t", "r", "u", "f", "a", "l", "m", "b">>
CharIndex(cs, c) == CHOOSE i \in 1..Len(cs) : cs[i] = c
LowerCh(c) ==
    IF \E i \in 1..Len(UpperChars) : UpperChars[i] = c
    THEN LowerChars[CharIndex(UpperChars, c)] ELSE c
UpperCh(c) ==
    IF \E i \in 1..Len(LowerChars) : LowerChars[i] = c
    THEN UpperChars[CharIndex(LowerChars, c)] ELSE c

\* str.lower, str.capitalize, str.strip
Lower(x) == [i \in 1..Len(x) |-> LowerCh(x[i])]
Capitalize(x) ==
    [i \in 1..Len(x) |-> IF i = 1 THEN UpperCh(x[i]) ELSE LowerCh(x[i])]
RECURSIVE Strip(_)
Strip(x) ==
    IF x = <<>> THEN x
    ELSE IF Head(x) = " " THEN Strip(Tail(x))
    ELSE IF x[Len(x)] = " " THEN Strip(SubSeq(x, 1, Len(x) - 1))
    ELSE x

YES_ALIASES == {<<"y", "e", "s">>, <<"y">>, <<"t", "r", "u", "e">>, <<"1">>}
NO_ALIASES == {<<"n", "o">>, <<"n">>, <<"f", "a", "l", "s", "e">>, <<"0">>}
LitYes == <<"y", "e", "s">>
LitNo == <<"n", "o">>

\* _coerce_outcomes, for a list (a JSON string decodes to the same list):
\* labels stripped, empty ones dropped, exactly two kept and capitalized
StripAll(raw) == [i \in 1..Len(raw) |-> Strip(raw[i])]
NonEmpty(x) == x # <<>>
_coerce_outcomes(raw) ==
    LET outs == SelectSeq(StripAll(raw), NonEmpty)
    IN  IF raw = None THEN None
        ELSE IF Len(outs) # 2 THEN None
        ELSE [i \in 1..2 |-> Capitalize(outs[i])]

_is_yes(x) == Lower(x) \in YES_ALIASES \/ Lower(x) = LitYes
_is_no(x) == Lower(x) \in NO_ALIASES \/ Lower(x) = LitNo

is_binary_yes_no(mk) ==
    LET outs == _coerce_outcomes(mk.outcomes)
    IN  IF outs = None THEN FALSE
        ELSE \/ _is_yes(outs[1]) /\ _is_no(outs[2])
             \/ _is_yes(outs[2]) /\ _is_no(outs[1])

\* parse_token_ids(parse_token_ids_field(m)), for a list of identifiers
parse_token_ids(mk) == mk.clobTokenIds

Quote(b, s, md) == [BUY |-> b, SELL |-> s, MID |-> md]
NoQuote == Quote(None, None, None)
AllAbsent(q) == q.BUY = None /\ q.SELL = None /\ q.MID = None

\* lines 223-225
SumOuts0(mk) ==
    LET c == _coerce_outcomes(mk.outcomes)
    IN  IF c = None THEN <<<<"Y", "e", "s">>, <<"N", "o">>>> ELSE c
SumTids0(mk) ==
    LET t == parse_token_ids(mk)
    IN  IF Len(t) >= 2 THEN SubSeq(t, 1, 2) ELSE t

\* line 228: labels and identifiers are exchanged on a literal [No, Yes]
SwapNeeded(outs, tids) ==
    /\ Len(outs) = 2 /\ Len(tids) = 2
    /\ Lower(outs[1]) = LitNo /\ Lower(outs[2]) = LitYes

\* lines 227-230
CanonOuts(mk) ==
    LET o == SumOuts0(mk)
    IN  IF SwapNeeded(o, SumTids0(mk)) THEN <<o[2], o[1]>> ELSE o
CanonTids(mk) ==
    LET t == SumTids0(mk)
    IN  IF SwapNeeded(SumOuts0(mk), t) THEN <<t[2], t[1]>> ELSE t

\* lines 235-236: price_map.get(tid, {}) read through .get("BUY") ...
BulkQuote(pm, tid) ==
    IF tid # NoneS /\ tid \in DOMAIN pm THEN pm[tid] ELSE NoQuote

\* a single-token fetch made whenever the bulk midpoint is missing
NeedsSingle_NoMid(tid, bulk) == tid # NoneS /\ bulk.MID = None

\* lines 242, 245: a single-token fetch is made for an identifier whose bulk
\* quote has no field at all
NeedsSingle(tid, bulk) == tid # NoneS /\ AllAbsent(bulk)

\* the midpoint read by truth value, so that 0.0 counts as missing
YesTiers_Truthy(y) ==
    IF y.MID # None /\ y.MID # Zero THEN y.MID
    ELSE IF y.BUY # None /\ y.SELL # None THEN Mul(Half, Add(y.BUY, y.SELL))
    ELSE IF y.BUY # None THEN y.BUY
    ELSE None

\* the mean of bestBuy and bestSell preferred to the midpoint
YesTiers_MeanFirst(y) ==
    IF y.BUY # None /\ y.SELL # None THEN Mul(Half, Add(y.BUY, y.SELL))
    ELSE IF y.MID # None THEN y.MID
    ELSE IF y.BUY # None THEN y.BUY
    ELSE None

\* lines 249-256: MID, else (BUY + SELL) / 2, else BUY
YesTiers(y) ==
    IF y.MID # None THEN y.MID
    ELSE IF y.BUY # None /\ y.SELL # None THEN Mul(Half, Add(y.BUY, y.SELL))
    ELSE IF y.BUY # None THEN y.BUY
    ELSE None

\* lines 258-260
QuoteTiers(y, n) ==
    LET q == YesTiers(y)
    IN  IF q = None /\ n.MID # None THEN Sub(One, n.MID) ELSE q

\* lines 266-271
YesIdx(outs) ==
    IF outs # <<>> /\ Lower(outs[1]) = LitYes THEN 1
    ELSE IF outs # <<>> /\ Len(outs) > 1 /\ Lower(outs[2]) = LitYes THEN 2
    ELSE 1

\* lines 263-283: outcomePrices, else the mean of bestBid and bestAsk
GammaFallback(mk, outs) ==
    LET op == mk.outcomePrices
    IN  IF op # <<>> /\ Len(op) >= 2
        THEN (IF YesIdx(outs) <= Len(op) THEN op[YesIdx(outs)] ELSE None)
        ELSE IF mk.bestBid # None /\ mk.bestAsk # None
        THEN Mul(Half, Add(mk.bestBid, mk.bestAsk))
        ELSE None

\* line 288
MajoritySide(q) ==
    IF q # None /\ Ge(q, Half) THEN "YES"
    ELSE IF q # None THEN "NO" ELSE NoneS

\* lines 223-301: summarize_binary_market, where sy and sn are what
\* fetch_prices_single answers for the Yes and the No identifier if asked.
\* The result holds the returned dict, the locals and the fetches made.
Summarize(mk, pm, sy, sn) ==
    LET outs == CanonOuts(mk)
        tids == CanonTids(mk)
        yes_tid == IF Len(tids) > 0 THEN tids[1] ELSE NoneS
        no_tid == IF Len(tids) > 1 THEN tids[2] ELSE NoneS
        by == BulkQuote(pm, yes_tid)
        bn == BulkQuote(pm, no_tid)
        fy == NeedsSingle(yes_tid, by)
        fn == NeedsSingle(no_tid, bn)
        p_yes == IF fy THEN sy ELSE by
        p_no == IF fn THEN sn ELSE bn
        q_quotes == QuoteTiers(p_yes, p_no)
        q_yes_mid == IF q_quotes = None THEN GammaFallback(mk, outs)
                     ELSE q_quotes
    IN  [ locals |-> [ outs |-> outs, tids |-> tids, p_yes |-> p_yes,
                       p_no |-> p_no, q_quotes |-> q_quotes ],
          calls |-> (IF fy THEN <<[token_id |-> yes_tid, quote |-> sy]>>
                     ELSE <<>>)
                    \o (IF fn THEN <<[token_id |-> no_tid, quote |-> sn]>>
                        ELSE <<>>),
          ret |-> [ yes |-> [ token_id |-> yes_tid, best_buy |-> p_yes.BUY,
                              best_sell |-> p_yes.SELL ],
                    no |-> [ token_id |-> no_tid, best_buy |-> p_no.BUY,
                             best_sell |-> p_no.SELL ],
                    q_yes_mid |-> q_yes_mid,
                    majority_side |-> MajoritySide(q_yes_mid) ] ]

\* Inputs of the pipeline
MaxTick == 2
Prices == {Rat(k, MaxTick) : k \in 0..MaxTick}
OptPrices == {None} \cup Prices
RawOutcomes ==
    { None,
      <<<<"Y", "e", "s">>, <<"N", "o">>>>,
      <<<<"N", "o">>, <<"Y", "e", "s">>>>,
      <<<<" ", "n", "o">>, <<"Y", "E", "S", " ">>>>,
      <<<<"N", "o">>, <<>>, <<"Y", "e", "s">>>>,
      <<<<"Y">>, <<"N">>>>,
      <<<<"N">>, <<"Y">>>>,
      <<<<"N", "o">>, <<"Y">>>>,
      <<<<"F", "a", "l", "s", "e">>, <<"T", "r", "u", "e">>>>,
      <<<<"1">>, <<"0">>>>,
      <<<<"Y", "e", "s">>, <<"M", "a", "y", "b", "e">>>>,
      <<<<"Y", "e", "s">>, <<"Y", "e", "s">>>>,
      <<<<"Y", "e", "s">>>>,
      <<<<"Y", "e", "s">>, <<"N", "o">>, <<"N">>>> }
TokenLists ==
    {<<>>, <<"tokA">>, <<"tokA", "tokB">>, <<"tokA", "tokB", "tokC">>}
\* outcomePrices with bestBid / bestAsk: the latter are read only when the
\* former has fewer than two entries
PricePairs == {<<a, Sub(One, a)>> : a \in Prices}
GammaFields ==
    {<<op, ba>> : op \in {None, <<Half>>},
                  ba \in {<<None, None>>, <<Zero, None>>, <<Zero, Half>>}}
        \cup {<<op, <<Zero, Half>>>> : op \in PricePairs}
Markets ==
    { [ outcomes |-> o, clobTokenIds |-> t, outcomePrices |-> g[1],
        bestBid |-> g[2][1], bestAsk |-> g[2][2] ] :
        o \in RawOutcomes, t \in TokenLists, g \in GammaFields }
YesQuotes ==
    {Quote(b, s, md) : b \in {None, Zero}, s \in {None, Half},
                       md \in OptPrices}
NoQuotes == {Quote(b, None, md) : b \in {None, Rat(1, 4)}, md \in OptPrices}

\* what fetch_prices_bulk may answer for the market's identifiers: an entry
\* for each, any field of which may be missing
BulkMaps(t) ==
    IF Len(t) = 0 THEN {<<>>}
    ELSE IF Len(t) = 1 THEN {[x \in {t[1]} |-> q] : q \in YesQuotes \cup NoQuotes}
    ELSE { [x \in {t[i] : i \in 1..Len(t)} |->
               IF x = t[1] THEN qa ELSE IF x = t[2] THEN qb ELSE NoQuote] :
           qa \in YesQuotes, qb \in NoQuotes }

\* what fetch_prices_single may answer for the identifier at position i, if
\* it is asked: any field may be missing (each request may fail)
SingleAnswers(tids, i, pm, qs) ==
    IF Len(tids) >= i /\ NeedsSingle(tids[i], BulkQuote(pm, tids[i]))
    THEN qs ELSE {NoQuote}

EvalIdle ==
    /\ cfg = NoRecord /\ call = NoRecord /\ loc = NoRecord
    /\ res = NoRecord /\ epc = "idle"

SumInit ==
    /\ m \in Markets
    /\ price_map = <<>>
    /\ tokq = NoRecord
    /\ fetched = <<>>
    /\ summary = NoRecord
    /\ spc = "listed"
    /\ EvalIdle
    /\ MainIdle

\* pull_binary_markets_ending_in line 314: a market that is not binary
\* Yes/No is left out of the output
DropMarket ==
    /\ spc = "listed"
    /\ ~is_binary_yes_no(m)
    /\ spc' = "dropped"
    /\ UNCHANGED <<m, price_map, tokq, fetched, summary>>
    /\ UNCHANGED evars
    /\ UNCHANGED mvars

\* lines 314-321: a binary market is kept and its identifiers' bulk quotes
\* are fetched
FetchPricesBulk ==
    /\ spc = "listed"
    /\ is_binary_yes_no(m)
    /\ price_map' \in BulkMaps(parse_token_ids(m))
    /\ spc' = "quoted"
    /\ UNCHANGED <<m, tokq, fetched, summary>>
    /\ UNCHANGED evars
    /\ UNCHANGED mvars

\* line 325: out.append(summarize_binary_market(m, bulk_prices))
SummarizeBinaryMarket ==
    /\ spc = "quoted"
    /\ \E sy \in SingleAnswers(CanonTids(m), 1, price_map, YesQuotes),
          sn \in SingleAnswers(CanonTids(m), 2, price_map, NoQuotes) :
           LET r == Summarize(m, price_map, sy, sn)
           IN  /\ tokq' = r.locals
               /\ fetched' = r.calls
               /\ summary' = r.ret
    /\ spc' = "done"
    /\ UNCHANGED <<m, price_map>>
    /\ UNCHANGED evars
    /\ UNCHANGED mvars

SumNext == DropMarket \/ FetchPricesBulk \/ SummarizeBinaryMarket

SumSpec == SumInit /\ [][SumNext]_vars

----------------------------------------------------------------------------
(* payout_calc.py, main: the batch runner *)

\* sum(r[field] for r in results), a left fold from 0
RECURSIVE SumStakes(_)
SumStakes(rs) ==
    IF rs = <<>> THEN Zero
    ELSE Add(SumStakes(SubSeq(rs, 1, Len(rs) - 1)), rs[Len(rs)].stake)
RECURSIVE SumEv(_)
SumEv(rs) ==
    IF rs = <<>> THEN Zero
    ELSE Add(SumEv(SubSeq(rs, 1, Len(rs) - 1)), rs[Len(rs)].ev_dollars)

\* lines 133-141: the win payouts of the results that are not HOLD
RECURSIVE TotalWinAll(_)
TotalWinAll(rs) ==
    IF rs = <<>> THEN Zero
    ELSE LET r == rs[Len(rs)]
             t == TotalWinAll(SubSeq(rs, 1, Len(rs) - 1))
         IN  IF r.side # "HOLD" THEN Add(t, r.win_payout_if_correct) ELSE t

\* the flag cleared only when no result is HOLD
AllHold_Any(rs) == \E i \in 1..Len(rs) : rs[i].side = "HOLD"

\* lines 134-137: all_hold stays True while every result is HOLD
AllHold(rs) == \A i \in 1..Len(rs) : rs[i].side = "HOLD"

\* lines 131-153: the totals and the lines printed from them
MainReport(rs) ==
    LET total_stake == SumStakes(rs)
        total_ev == SumEv(rs)
        total_win_all == TotalWinAll(rs)
        all_hold == AllHold(rs)
    IN  [ side |-> "totals",
          total_stake |-> Round(total_stake, 2),
          total_ev |-> Round(total_ev, 2),
          all_win_payout |-> IF ~all_hold THEN Round(total_win_all, 2)
                             ELSE None,
          all_win_profit |-> IF ~all_hold
                             THEN Round(Sub(total_win_all, total_stake), 2)
                             ELSE None ]

\* Inputs of the batch runner
MaxMarkets == 3
MainConfigs ==
    [majority_accuracy : {Rat(9, 10)}, min_ev : MinEvs, fee_rate : FeeRates]
MainCalls ==
    [yes_pct : {Int2R(45), Int2R(55), Int2R(62)}, no_pct : {None},
     stake : {Int2R(10), Int2R(100)}]

MainInit ==
    /\ cfg \in MainConfigs
    /\ call = NoRecord /\ loc = NoRecord /\ res = NoRecord /\ epc = "idle"
    /\ results = <<>>
    /\ report = NoRecord
    /\ mpc = "loop"
    /\ SumIdle

\* lines 114-124: a question is entered, the market evaluated and appended
EnterMarket ==
    /\ mpc = "loop"
    /\ Len(results) < MaxMarkets
    /\ \E c \in MainCalls :
           /\ res' = EvalResult(EvalLocals(c.yes_pct, c.no_pct, c.stake, cfg))
           /\ results' = Append(results, res')
    /\ UNCHANGED <<cfg, call, loc, epc, report, mpc>>
    /\ UNCHANGED svars

\* lines 116-117, 126-128: a blank question with no market entered
FinishEmpty ==
    /\ mpc = "loop"
    /\ results = <<>>
    /\ mpc' = "bye"
    /\ UNCHANGED <<results, report>>
    /\ UNCHANGED evars
    /\ UNCHANGED svars

\* lines 116-117, 130-154: a blank question ends the loop, the totals follow
FinishSummary ==
    /\ mpc = "loop"
    /\ results # <<>>
    /\ report' = MainReport(results)
    /\ mpc' = "done"
    /\ UNCHANGED results
    /\ UNCHANGED evars
    /\ UNCHANGED svars

MainNext == EnterMarket \/ FinishEmpty \/ FinishSummary

MainSpec == MainInit /\ [][MainNext]_vars

----------------------------------------------------------------------------
(* Claims about evaluate_market, checked under Spec *)

Returned == epc = "returned"
InUnit(x) == Ge(x, Zero) /\ Le(x, One)

\* C1: the normalized pair is (yes, no) with no replaced by 1 - yes when it
\* is not supplied or when the pair misses 1 by more than 1e-6; q_yes is
\* majority_accuracy when p_yes > p_no, 1 - majority_accuracy when
\* p_yes < p_no, and 1/2 when they are equal.
C1_Calibration ==
    Returned =>
        LET y == IF Gt(call.yes_pct, One)
                 THEN Div(call.yes_pct, Int2R(100)) ELSE call.yes_pct
            n == IF call.no_pct = None THEN None
                 ELSE IF Gt(call.no_pct, One)
                 THEN Div(call.no_pct, Int2R(100)) ELSE call.no_pct
            off == IF n = None THEN Zero ELSE AbsR(Sub(Add(y, n), One))
            recomputed == n = None \/ Gt(off, Rat(1, 1000000))
        IN  /\ loc.p_yes = y
            /\ loc.p_no = IF recomputed THEN Sub(One, y) ELSE n
            /\ Gt(loc.p_yes, loc.p_no) => loc.q_yes = cfg.majority_accuracy
            /\ Lt(loc.p_yes, loc.p_no)
                   => loc.q_yes = Sub(One, cfg.majority_accuracy)
            /\ loc.p_yes = loc.p_no => loc.q_yes = Half
            /\ res.q_yes_calibrated = Round(loc.q_yes, 4)

\* a supplied pair 50 / 60 is forced to 0.5 / 0.5 and calibrates to 1/2
C1_Witness ==
    /\ Returned
    /\ call.yes_pct = Int2R(50) /\ call.no_pct = Int2R(60)
    /\ cfg.majority_accuracy = Rat(9, 10)
    /\ loc.p_no = Half /\ loc.q_yes = Half

\* C2: HOLD (EV$ = 0, both payouts 0) exactly when both per-dollar EVs are
\* below min_ev; otherwise YES when evYes >= evNo and NO when evYes < evNo,
\* compared unrounded.
C2_SideSelection ==
    Returned =>
        LET evYes == Sub(loc.q_yes, loc.p_yes)
            evNo == Sub(Sub(One, loc.q_yes), loc.p_no)
            hold == Lt(evYes, cfg.min_ev) /\ Lt(evNo, cfg.min_ev)
        IN  /\ res.side = "HOLD" <=> hold
            /\ res.side = "HOLD" =>
                   /\ res.ev_dollars = Zero
                   /\ res.win_payout_if_correct = Zero
                   /\ res.lose_payout_if_wrong = Zero
            /\ ~hold => (res.side = "YES" <=> Ge(evYes, evNo))
            /\ ~hold => (res.side = "NO" <=> Lt(evYes, evNo))

\* 50 / 50 with min_ev = 0: both EVs are 0, the side is YES
C2_Witness ==
    /\ Returned
    /\ call.yes_pct = Int2R(50) /\ call.no_pct = Int2R(50)
    /\ cfg.min_ev = Zero
    /\ loc.ev_per_yes = Zero /\ loc.ev_per_no = Zero
    /\ res.side = "YES"

\* C7: for a chosen side at price c with stake s the win payout is
\* g - fee_rate * (g - s) with g = s / c, g = 0 when c is 0; the lose
\* payout is 0.
C7_WinPayout ==
    Returned /\ res.side # "HOLD" =>
        LET c == loc.chosen_price
            s == call.stake
            g == IF c = Zero THEN Zero ELSE Div(s, c)
        IN  /\ loc.win_payout = Sub(g, Mul(cfg.fee_rate, Sub(g, s)))
            /\ loc.lose_payout = Zero

\* C8 as the spec states it: example 1 ends with EV$ about 55.16
C8_Example1_Original ==
    ( /\ Returned
      /\ call = [yes_pct |-> Int2R(62), no_pct |-> None, stake |-> Int2R(100)]
      /\ cfg = [majority_accuracy |-> Rat(9, 10), min_ev |-> Zero,
                fee_rate |-> Zero] )
    => /\ res.side = "YES"
       /\ res.q_yes_calibrated = Rat(9, 10)
       /\ res.chosen_price = Rat(62, 100)
       /\ res.win_payout_if_correct = Rat(16129, 100)
       /\ res.ev_dollars = Rat(5516, 100)

\* C8, amended: example 1 (62, no absent, stake 100, accuracy 0.90, no fee,
\* min_ev 0) returns YES, q_yes 0.90, price 0.62, win payout 161.29 and
\* EV$ 45.16; EV$ is qWin * winPayout + (1 - qWin) * losePayout - stake.
C8_Example1 ==
    /\ Returned /\ res.side # "HOLD" =>
           loc.ev_dollars =
               Sub(Add(Mul(loc.chosen_q_win, loc.win_payout),
                       Mul(Sub(One, loc.chosen_q_win), loc.lose_payout)),
                   call.stake)
    /\ ( /\ Returned
         /\ call = [yes_pct |-> Int2R(62), no_pct |-> None,
                    stake |-> Int2R(100)]
         /\ cfg = [majority_accuracy |-> Rat(9, 10), min_ev |-> Zero,
                   fee_rate |-> Zero] )
       => /\ res.side = "YES"
          /\ res.q_yes_calibrated = Rat(9, 10)
          /\ res.chosen_price = Rat(62, 100)
          /\ res.win_payout_if_correct = Rat(16129, 100)
          /\ res.ev_dollars = Rat(4516, 100)

C8_Witness ==
    /\ Returned
    /\ call = [yes_pct |-> Int2R(62), no_pct |-> None, stake |-> Int2R(100)]
    /\ cfg = [majority_accuracy |-> Rat(9, 10), min_ev |-> Zero,
              fee_rate |-> Zero]
    /\ res.side = "YES"
    /\ res.ev_dollars = Rat(4516, 100)

\* C9: no result carries a market probability outside [0, 1]: an input
\* below 0 or above 100 is rejected and yields no side, EV or payout.
C9_RejectsOutOfRange ==
    Returned =>
        /\ InUnit(res.p_yes_market) /\ InUnit(res.p_no_market)
        /\ ( \/ Lt(call.yes_pct, Zero)
             \/ Gt(call.yes_pct, Int2R(100)) ) => res.side = NoneS

\* C10: a stake that is 0 or negative gives win payout 0 and lose payout 0
C10_NonPositiveStake ==
    Returned /\ Le(call.stake, Zero) =>
        /\ res.win_payout_if_correct = Zero
        /\ res.lose_payout_if_wrong = Zero

----------------------------------------------------------------------------
(* Claims about summarize_binary_market, checked under SumSpec *)

Done == spc = "done"

\* the bulk quote of an identifier, and the quote fetch_prices_single gave
\* for it if it was asked
BulkOf(tid) == IF tid \in DOMAIN price_map THEN price_map[tid] ELSE NoQuote
SingleOf(tid) ==
    IF \E i \in 1..Len(fetched) : fetched[i].token_id = tid
    THEN fetched[CHOOSE i \in 1..Len(fetched) : fetched[i].token_id = tid].quote
    ELSE NoQuote

\* tiers 1-4 on a pair of quotes, as the claims word them
Tiers14(y, n) ==
    IF y.MID # None THEN y.MID
    ELSE IF y.BUY # None /\ y.SELL # None
    THEN Rat(y.BUY[1] * y.SELL[2] + y.SELL[1] * y.BUY[2],
             2 * y.BUY[2] * y.SELL[2])
    ELSE IF y.BUY # None THEN y.BUY
    ELSE IF n.MID # None THEN Rat(n.MID[2] - n.MID[1], n.MID[2])
    ELSE None

\* C3: with two identifiers, the Yes identifier is the one paired with the
\* Yes-like label of the record and the No identifier the one paired with
\* the No-like label.
C3_CanonicalPair ==
    Done /\ Len(m.clobTokenIds) = 2 =>
        LET outs == _coerce_outcomes(m.outcomes)
            yi == IF Lower(outs[1]) \in YES_ALIASES THEN 1 ELSE 2
        IN  /\ summary.yes.token_id = m.clobTokenIds[yi]
            /\ summary.no.token_id = m.clobTokenIds[3 - yi]

C5_SettlementPrice ==
    Done /\ tokq.q_quotes = None =>
        LET outs == _coerce_outcomes(m.outcomes)
            op == m.outcomePrices
            pos == IF Lower(outs[1]) = LitYes THEN 1
                   ELSE IF Lower(outs[2]) = LitYes THEN 2 ELSE 1
        IN  /\ Len(op) >= 2 => summary.q_yes_mid = op[pos]
            /\ ( /\ Len(op) < 2
                 /\ m.bestBid # None /\ m.bestAsk # None )
                   => summary.q_yes_mid =
                          Mul(Half, Add(m.bestBid, m.bestAsk))

\* C6: q_yes_mid is absent exactly when no tier yields a value; a tier that
\* yields 0 ends the cascade with q_yes_mid = 0; majority_side is YES
\* exactly when q_yes_mid is present and >= 1/2, NO exactly when it is
\* present and < 1/2, absent exactly when q_yes_mid is absent.
C6_AbsentAndMajority ==
    Done =>
        LET y == tokq.p_yes
            n == tokq.p_no
            op == m.outcomePrices
            q == summary.q_yes_mid
            noTier == /\ y.MID = None /\ y.BUY = None /\ n.MID = None
                      /\ Len(op) < 2
                      /\ (m.bestBid = None \/ m.bestAsk = None)
        IN  /\ q = None <=> noTier
            /\ y.MID = Zero => q = Zero
            /\ (y.MID = None /\ y.BUY = Zero /\ y.SELL = None) => q = Zero
            /\ (y.MID = None /\ y.BUY = None /\ n.MID = One) => q = Zero
            /\ (tokq.q_quotes = None /\ Len(op) >= 2) => q \in {op[1], op[2]}
            /\ summary.majority_side = "YES" <=> (q # None /\ Ge(q, Half))
            /\ summary.majority_side = "NO" <=> (q # None /\ Lt(q, Half))
            /\ summary.majority_side = NoneS <=> q = None

\* a Yes midpoint of 0 resolves to 0 and to majority NO
C6_Witness ==
    /\ Done
    /\ tokq.p_yes.MID = Zero
    /\ tokq.p_yes.BUY = Zero /\ tokq.p_yes.SELL = Half
    /\ summary.q_yes_mid = Zero
    /\ summary.majority_side = "NO"

\* the identifiers fetch_prices_single was called for, in call order
FetchedIds == [i \in 1..Len(fetched) |-> fetched[i].token_id]
CallsFor(fy, fn) ==
    (IF fy THEN <<summary.yes.token_id>> ELSE <<>>)
        \o (IF fn THEN <<summary.no.token_id>> ELSE <<>>)

----------------------------------------------------------------------------
(* Claims about main's totals, checked under MainSpec *)

\* the sum of a sequence of numbers
RECURSIVE SumOf(_)
SumOf(xs) == IF xs = <<>> THEN Zero ELSE Add(Head(xs), SumOf(Tail(xs)))
NotHold(r) == r.side # "HOLD"
Picks == SelectSeq(results, NotHold)

\* C11: total stake is the sum of the results' stakes, total EV the sum of
\* their EV in dollars, the all-win payout the sum of the win payouts of the
\* results that are not HOLD; the all-win lines are printed only when some
\* result is not HOLD.
C11_Totals ==
    /\ mpc = "done" =>
           /\ report.total_stake =
                  SumOf([i \in 1..Len(results) |-> results[i].stake])
           /\ report.total_ev =
                  SumOf([i \in 1..Len(results) |-> results[i].ev_dollars])
           /\ Picks # <<>> =>
                  /\ report.all_win_payout =
                         SumOf([i \in 1..Len(Picks) |->
                                    Picks[i].win_payout_if_correct])
                  /\ report.all_win_profit =
                         Sub(report.all_win_payout, report.total_stake)
           /\ Picks = <<>> =>
                  report.all_win_payout = None /\ report.all_win_profit = None
    /\ mpc # "done" => report = NoRecord

\* two picks and a HOLD between them: the all-win lines are printed and the
\* HOLD's stake counts in the total stake only
C11_Witness ==
    /\ mpc = "done"
    /\ Len(results) = 3
    /\ results[1].side = "YES" /\ results[2].side = "HOLD"
    /\ results[3].side = "NO"
    /\ report.all_win_payout =
           Add(results[1].win_payout_if_correct,
               results[3].win_payout_if_correct)
    /\ Gt(report.total_stake, Add(results[1].stake, results[3].stake))

====
